---- MODULE Spec2Model ----
(***************************************************************************)
(* Task manager: the local task store (IndexedDB), the Notion client and   *)
(* the synchronisation code (syncConnection, syncAllConnections,           *)
(* pushTaskToNotion) of src/unnamed/part_000, as a state machine.          *)
(*                                                                         *)
(* Every `await` of the code is a step of the process that runs it, so     *)
(* that the steps of overlapping sync runs, eager pushes and user actions  *)
(* interleave as they do on the event loop.                                *)
(***************************************************************************)
EXTENDS Integers, Sequences, FiniteSets, TLC

\* ------------------------------------------------------------------ bounds
MaxOps == 4          \* sync runs started, user actions, remote-side edits
                     \* and seconds that pass
MaxFails == 1        \* remote requests that fail for a reason of the network
MaxRaceOps == 2      \* the same as MaxOps, where the handlers interleave

\* ------------------------------------------------------------------ values
Null == "null"                \* JS null of a string-valued field
NoId == 0                     \* JS null of an id (autoIncrement keys start at 1)
NoTime == -1                  \* JS null of a timestamp
Titles == {"a", "b"}          \* non-empty to-do texts
RemoteIds == {"x", "y"}       \* block ids of the remote to-dos
PageOrder == <<"x", "y">>     \* the order in which the API lists the blocks
Conns == {1, 2}               \* keys of the stored connections
Procs == {"p1", "p2"}         \* sync runs that can be in flight together
Pushers == {"q1"}             \* eager pushes that can be in flight together

PageTitle == "P"              \* title of the page holding the to-dos
PageUrl == "u"                \* url of that page

\* The database a block lives in: both blocks are on a page of database D1.
BlockDb(id) == "D1"

VARIABLES
  tasks,        \* object store 'tasks': key -> record
  nextId,       \* autoIncrement key generator of 'tasks'
  connections,  \* object store 'connections': key -> record
  remote,       \* the Notion side: block id -> [present, title, completed]
  clock,        \* the local time, as localNow() reads it
  sync,         \* the sync runs: position and locals of each
  push,         \* the eager pushes: position and locals of each
  ops,          \* runs started, user actions, remote edits and seconds so far
  fails,        \* remote requests that the network has failed so far
  settled,      \* the store as the last completed cycle left it, while
                \* nothing else has acted since (history, for the claims)
  del,          \* the delete handler of a connection card: position and locals
  hist          \* what the user has deleted so far (history, for the claims)

vars == <<tasks, nextId, connections, remote, clock, sync, push, ops, fails, settled,
         del, hist>>

\* What may happen in a run of the model: `alone` says that a handler starts
\* only when nothing is in flight.
Budget(alone) == IF alone THEN MaxOps ELSE MaxRaceOps

\* ------------------------------------------------------------ local store
\* A JS object with optional keys is a function whose domain is the keys
\* that are given: fields[key] !== undefined is key \in DOMAIN fields.
Has(obj, key) == key \in DOMAIN obj

\* localNow(): the wall clock, to the second.
localNow == clock

\* Mutant: the comparator looks at created_at alone.
TaskCmpByDate(a, b) ==
  IF b.created_at > a.created_at THEN 1
  ELSE IF b.created_at < a.created_at THEN -1 ELSE 0

\* The comparator of dbGetAllTasks: incomplete first, then created_at
\* descending.  Negative: a sorts before b.
TaskCmp(a, b) ==
  IF a.completed # b.completed
    THEN (IF a.completed # 0 THEN 1 ELSE -1)
    ELSE (IF b.created_at > a.created_at THEN 1
          ELSE IF b.created_at < a.created_at THEN -1 ELSE 0)

\* Array.prototype.sort is stable: t goes after the last element that does
\* not compare greater than it.
RECURSIVE InsertSorted(_, _)
InsertSorted(s, t) ==
  IF s = <<>> THEN <<t>>
  ELSE IF TaskCmp(s[Len(s)], t) <= 0 THEN Append(s, t)
  ELSE Append(InsertSorted(SubSeq(s, 1, Len(s) - 1), t), s[Len(s)])

RECURSIVE SortTasks(_)
SortTasks(s) ==
  IF s = <<>> THEN <<>>
  ELSE InsertSorted(SortTasks(SubSeq(s, 1, Len(s) - 1)), s[Len(s)])

\* getAll(): the records of a store in key order.
RECURSIVE GetAll(_)
GetAll(store) ==
  IF DOMAIN store = {} THEN <<>>
  ELSE LET m == CHOOSE i \in DOMAIN store : \A j \in DOMAIN store : j <= i
       IN  Append(GetAll([k \in (DOMAIN store) \ {m} |-> store[k]]), store[m])

\* Mutant: the source filter is ignored.
dbGetAllTasksUnfiltered(fSource, fCompleted) == SortTasks(GetAll(tasks))

\* dbGetAllTasks(filters); "any" stands for a filter that is not given.
dbGetAllTasks(fSource, fCompleted) ==
  LET all == GetAll(tasks)
      bySource == IF fSource = "any" THEN all
                  ELSE SelectSeq(all, LAMBDA t : t.source = fSource)
      byDone == IF fCompleted = "any" THEN bySource
                ELSE SelectSeq(bySource,
                       LAMBDA t : (t.completed # 0) = (fCompleted = "true"))
  IN  SortTasks(byDone)

\* The record dbCreateTask stores for `data`, under the next key.
NewTask(data) ==
  [ id |-> nextId,
    title |-> IF Has(data, "title") THEN data.title ELSE "",
    description |-> IF Has(data, "description") THEN data.description ELSE "",
    completed |-> IF Has(data, "completed") /\ data.completed THEN 1 ELSE 0,
    due_date |-> IF Has(data, "due_date") THEN data.due_date ELSE Null,
    source |-> IF Has(data, "source") THEN data.source ELSE "local",
    source_id |-> IF Has(data, "source_id") THEN data.source_id ELSE Null,
    source_url |-> IF Has(data, "source_url") THEN data.source_url ELSE Null,
    connection_id |-> IF Has(data, "connection_id") THEN data.connection_id ELSE NoId,
    created_at |-> localNow,
    updated_at |-> localNow ]

\* The store after dbCreateTask(data).
dbCreateTask(data) == (nextId :> NewTask(data)) @@ tasks

\* Mutant: dbUpdateTask copies every key of `fields`, allowed or not.
ApplyFieldsAnyKey(task, fields) ==
  [k \in DOMAIN task |->
     IF k = "updated_at" THEN localNow
     ELSE IF ~Has(fields, k) THEN task[k]
     ELSE IF k = "completed" THEN (IF fields[k] THEN 1 ELSE 0)
     ELSE fields[k]]

\* dbUpdateTask, after its get(): the fields it copies from `fields` onto
\* the record it read, and the timestamp.
ApplyFields(task, fields) ==
  [ task EXCEPT
      !.title = IF Has(fields, "title") THEN fields.title ELSE @,
      !.description = IF Has(fields, "description") THEN fields.description ELSE @,
      !.completed = IF Has(fields, "completed")
                      THEN (IF fields.completed THEN 1 ELSE 0) ELSE @,
      !.due_date = IF Has(fields, "due_date") THEN fields.due_date ELSE @,
      !.source_url = IF Has(fields, "source_url") THEN fields.source_url ELSE @,
      !.updated_at = localNow ]

\* put(task): the record is written under its key, whether present or not.
Put(task) ==
  [i \in (DOMAIN tasks) \cup {task.id} |-> IF i = task.id THEN task ELSE tasks[i]]

\* The store after dbDeleteTask(id).
dbDeleteTask(id) == [i \in (DOMAIN tasks) \ {id} |-> tasks[i]]

\* The store after dbUpdateConnection(id, {last_synced_at: t}).
dbUpdateConnection(id, t) ==
  IF id \in DOMAIN connections
    THEN [connections EXCEPT ![id].last_synced_at = t]
    ELSE connections

\* ---------------------------------------------------------- Notion client
\* The to-do a block is listed as by notionCollectTodos.
TodoOf(id) ==
  [ source_id |-> id,
    title |-> remote[id].title,
    completed |-> remote[id].completed,
    description |-> PageTitle,
    source_url |-> PageUrl \o "#" \o id ]

\* notionFetchTodos: the to-dos of the database, in page order.
RECURSIVE CollectTodos(_, _)
CollectTodos(db, order) ==
  IF order = <<>> THEN <<>>
  ELSE LET id == Head(order)
           rest == CollectTodos(db, Tail(order))
       IN  IF remote[id].present /\ BlockDb(id) = db
             THEN <<TodoOf(id)>> \o rest ELSE rest

notionFetchTodos(db) == CollectTodos(db, PageOrder)

\* A PATCH of a block succeeds only on a block that exists.
CanPatch(id) == id \in RemoteIds /\ remote[id].present

\* The network: a request goes through (ok), or it fails.
Network(ok) ==
  IF ok THEN fails' = fails
  ELSE fails < MaxFails /\ fails' = fails + 1

\* The remote side after notionUpdateTodoChecked(token, id, checked).
notionUpdateTodoChecked(id, checked) == [remote EXCEPT ![id].completed = checked]

\* The remote side after notionUpdateTodoText(token, id, text).
notionUpdateTodoText(id, text) == [remote EXCEPT ![id].title = text]

\* Nothing is in flight: no sync run, no eager push, no connection delete.
Quiet ==
  /\ \A p \in Procs : sync[p].pc = "idle"
  /\ \A q \in Pushers : push[q].pc = "idle"
  /\ del.pc = "idle"

\* -------------------------------------------------------- syncConnection
\* A sync run that is not in flight.
IdleSync ==
  [ pc |-> "idle", kind |-> "none", list |-> <<>>, ci |-> 0, conn |-> <<>>,
    localTasks |-> <<>>, i |-> 0, remoteTodos |-> <<>>, remoteIds |-> {},
    got |-> <<>>, invoked |-> <<>>, failed |-> {}, rejected |-> FALSE,
    calls |-> <<>>, tasks0 |-> <<>>, remote0 |-> <<>> ]

\* The condition of the push loop (and of the delete loop) on a local task.
OwnedBy(t, conn) == t.source_id # Null /\ t.connection_id = conn.id

\* The first index from `from` on whose task satisfies P, 0 when none does:
\* a for-loop that skips the elements its `if` rejects.
NextIndex(s, from, P(_)) ==
  IF \E k \in from..Len(s) : P(s[k])
    THEN CHOOSE k \in from..Len(s) : P(s[k]) /\ \A j \in from..(k - 1) : ~P(s[j])
    ELSE 0

\* Mutant: the delete loop is skipped.
ToDeleteNone(r, from) == [r EXCEPT !.pc = "stamp", !.i = 0]

\* Mutant: the delete loop does not advance past the task it has deleted.
ToDeleteNoAdvance(r, from) ==
  LET k == NextIndex(r.localTasks, IF from > 1 THEN from - 1 ELSE 1,
             LAMBDA t : OwnedBy(t, r.conn[1]) /\ t.source_id \notin r.remoteIds)
  IN  IF k # 0 THEN [r EXCEPT !.pc = "delete", !.i = k]
      ELSE [r EXCEPT !.pc = "stamp", !.i = 0]

\* The delete loop from index `from` on, then the stamp.
ToDelete(r, from) ==
  LET k == NextIndex(r.localTasks, from,
             LAMBDA t : OwnedBy(t, r.conn[1]) /\ t.source_id \notin r.remoteIds)
  IN  IF k # 0 THEN [r EXCEPT !.pc = "delete", !.i = k]
      ELSE [r EXCEPT !.pc = "stamp", !.i = 0]

\* The pull loop from index `from` on, then the delete loop.
ToPull(r, from) ==
  IF from <= Len(r.remoteTodos) THEN [r EXCEPT !.pc = "pull", !.i = from]
  ELSE ToDelete(r, 1)

\* Mutant: the push loop is left out, the fetch comes first.
ToPushNone(r, from) == [r EXCEPT !.pc = "fetch", !.i = 0]

\* The push loop from index `from` on, then the fetch.
ToPush(r, from) ==
  LET k == NextIndex(r.localTasks, from, LAMBDA t : OwnedBy(t, r.conn[1]))
  IN  IF k # 0 THEN [r EXCEPT !.pc = "push", !.i = k]
      ELSE [r EXCEPT !.pc = "fetch", !.i = 0]

\* syncConnection(conn) up to its first remote request: the task list is
\* read, and the push loop is entered.  (calls, tasks0 and remote0 are
\* history: the requests of the cycle, and both sides as the cycle found them.)
EnterSync(r, conn) ==
  ToPush([r EXCEPT !.conn = <<conn>>,
                   !.localTasks = dbGetAllTasks("notion", "any"),
                   !.remoteTodos = <<>>, !.remoteIds = {}, !.got = <<>>,
                   !.calls = <<>>, !.tasks0 = tasks, !.remote0 = remote], 1)

\* Mutant: the lookup never finds the local task.
LocalBySourceIdMiss(localTasks, id) == <<>>

\* localBySourceId.get(id): the last task of the list with that source_id.
LocalBySourceId(localTasks, id) ==
  LET hits == {k \in 1..Len(localTasks) :
                 localTasks[k].source_id # Null /\ localTasks[k].source_id = id}
  IN  IF hits = {} THEN <<>>
      ELSE <<localTasks[CHOOSE k \in hits : \A j \in hits : j <= k]>>

\* Mutant: the update of the pull loop leaves `title` out.
PullFieldsNoTitle(todo) ==
  [ description |-> todo.description, completed |-> todo.completed,
    source_url |-> todo.source_url ]

\* Mutant: the update of the pull loop leaves `completed` out.
PullFieldsNoCompleted(todo) ==
  [ title |-> todo.title, description |-> todo.description,
    source_url |-> todo.source_url ]

\* The fields the pull loop passes to dbUpdateTask for a remote to-do.
PullFields(todo) ==
  [ title |-> todo.title, description |-> todo.description,
    completed |-> todo.completed, source_url |-> todo.source_url ]

\* Mutant: the created task is not tied to the connection.
PullDataNoConnection(todo, conn) ==
  [ source_id |-> todo.source_id, title |-> todo.title,
    completed |-> todo.completed, description |-> todo.description,
    source_url |-> todo.source_url, source |-> "notion" ]

\* The data the pull loop passes to dbCreateTask for a remote to-do.
PullData(todo, conn) ==
  [ source_id |-> todo.source_id, title |-> todo.title,
    completed |-> todo.completed, description |-> todo.description,
    source_url |-> todo.source_url, source |-> "notion",
    connection_id |-> conn.id ]

\* History: what the last completed cycle left, and who may still act.
Settle(p, c) ==
  LET same == settled # <<>> /\ settled[1].conn = c /\ settled[1].by = p
  IN  <<[ conn |-> c, by |-> "none", snap |-> tasks,
          prev |-> IF same THEN <<settled[1].snap>> ELSE <<>> ]>>

\* A cycle of connection c begins in run p.
SettledAtEnter(p, c) ==
  IF settled # <<>> /\ settled[1].conn = c /\ settled[1].by = "none"
    THEN <<[settled[1] EXCEPT !.by = p, !.prev = <<>>]>>
    ELSE <<>>

\* A step of the cycle of run p.
SettledAtStep(p) ==
  IF settled # <<>> /\ settled[1].by = p THEN settled ELSE <<>>

\* One request of the cycle, as the client issued it (history).
Call(op, id, checked, ok) == [op |-> op, id |-> id, checked |-> checked, ok |-> ok]

\* Mutant: no try/catch around the push: its failure ends syncConnection.
AfterPushNoCatch(r, good) ==
  IF good THEN ToPush(r, r.i + 1) ELSE [r EXCEPT !.pc = "threw"]

\* Mutant: the delete loop comes right after the push loop, before the fetch.
AfterPushDeleteFirst(r, good) == ToDelete(r, 1)

\* try { await notionUpdateTodoChecked(...) } catch (_) {}: the loop goes on
\* whether the request went through (good) or not.
AfterPush(r, good) == ToPush(r, r.i + 1)

\* The push loop: one notionUpdateTodoChecked.
SyncPush(p, ok) ==
  /\ sync[p].pc = "push"
  /\ Network(ok)
  /\ LET r == sync[p]
         t == r.localTasks[r.i]
         good == ok /\ CanPatch(t.source_id)
     IN  /\ remote' = IF good THEN notionUpdateTodoChecked(t.source_id, t.completed # 0)
                      ELSE remote
         /\ sync' = [sync EXCEPT ![p] =
              AfterPush([r EXCEPT !.calls =
                           Append(@, Call("push", t.source_id, t.completed # 0, good))],
                        good)]
  /\ settled' = SettledAtStep(p)
  /\ UNCHANGED <<tasks, nextId, connections, clock, push, ops, del, hist>>

\* Mutant: a fetch that fails is taken for an empty list.
FetchFailedAsEmpty(r) == ToPull([r EXCEPT !.remoteTodos = <<>>], 1)

\* notionFetchTodos throws and nothing catches it: syncConnection rejects.
FetchFailed(r) == [r EXCEPT !.pc = "threw"]

\* notionFetchTodos: the list, or the failure that ends syncConnection.
SyncFetch(p, ok) ==
  /\ sync[p].pc = "fetch"
  /\ Network(ok)
  /\ LET r == [sync[p] EXCEPT !.calls = Append(@, Call("fetch", Null, FALSE, ok))]
     IN  IF ok
           THEN /\ sync' = [sync EXCEPT ![p] =
                     ToPull([r EXCEPT !.remoteTodos =
                               notionFetchTodos(r.conn[1].config.database_id)], 1)]
                /\ settled' = SettledAtStep(p)
           ELSE /\ sync' = [sync EXCEPT ![p] = FetchFailed(r)]
                /\ settled' = <<>>
  /\ UNCHANGED <<tasks, nextId, connections, remote, clock, push, ops, del, hist>>

\* The pull loop on one to-do: dbCreateTask, or the get() of dbUpdateTask.
SyncPull(p) ==
  /\ sync[p].pc = "pull"
  /\ LET r == sync[p]
         todo == r.remoteTodos[r.i]
         r1 == [r EXCEPT !.remoteIds = @ \cup {todo.source_id}]
         existing == LocalBySourceId(r.localTasks, todo.source_id)
     IN  IF existing # <<>>
           THEN /\ UNCHANGED <<tasks, nextId, fails>>
                /\ sync' = [sync EXCEPT ![p] =
                     IF existing[1].id \in DOMAIN tasks
                       THEN [r1 EXCEPT !.pc = "put", !.got = <<tasks[existing[1].id]>>]
                       ELSE ToPull(r1, r.i + 1)]
           ELSE /\ tasks' = dbCreateTask(PullData(todo, r.conn[1]))
                /\ nextId' = nextId + 1
                /\ sync' = [sync EXCEPT ![p] = ToPull(r1, r.i + 1)]
  /\ settled' = SettledAtStep(p)
  /\ UNCHANGED <<connections, remote, clock, push, ops, fails, del, hist>>

\* The put() of dbUpdateTask in the pull loop.
SyncPut(p) ==
  /\ sync[p].pc = "put"
  /\ LET r == sync[p]
     IN  /\ tasks' = Put(ApplyFields(r.got[1], PullFields(r.remoteTodos[r.i])))
         /\ sync' = [sync EXCEPT ![p] = ToPull([r EXCEPT !.got = <<>>], r.i + 1)]
  /\ settled' = SettledAtStep(p)
  /\ UNCHANGED <<nextId, connections, remote, clock, push, ops, fails, del, hist>>

\* The delete loop: dbDeleteTask of one task whose to-do was not listed.
SyncDelete(p) ==
  /\ sync[p].pc = "delete"
  /\ LET r == sync[p]
     IN  /\ tasks' = dbDeleteTask(r.localTasks[r.i].id)
         /\ sync' = [sync EXCEPT ![p] = ToDelete(r, r.i + 1)]
  /\ settled' = SettledAtStep(p)
  /\ UNCHANGED <<nextId, connections, remote, clock, push, ops, fails, del, hist>>

\* The store after the put() of a dbUpdateConnection whose get() read `conn`.
PutConnection(conn, t) ==
  [i \in (DOMAIN connections) \cup {conn.id} |->
     IF i = conn.id THEN [conn EXCEPT !.last_synced_at = t] ELSE connections[i]]

\* dbUpdateConnection(conn.id, {last_synced_at}) and the return.  (got holds
\* the record when the get() of this call came before a delete of the
\* connection that came before its put().)
SyncStamp(p) ==
  /\ sync[p].pc = "stamp"
  /\ connections' = IF sync[p].got # <<>> THEN PutConnection(sync[p].got[1], localNow)
                    ELSE dbUpdateConnection(sync[p].conn[1].id, localNow)
  /\ sync' = [sync EXCEPT ![p].pc = "done", ![p].got = <<>>]
  /\ settled' = Settle(p, sync[p].conn[1].id)
  /\ UNCHANGED <<tasks, nextId, remote, clock, push, ops, fails, del, hist>>

\* ---------------------------------------------------- syncAllConnections
\* The filter of the loop of syncAllConnections.
Syncable(conn) == conn.enabled # 0 /\ conn.type = "notion"

\* The locals of syncConnection are gone once it has returned or thrown.
DropLocals(r) ==
  [r EXCEPT !.conn = <<>>, !.localTasks = <<>>, !.i = 0, !.remoteTodos = <<>>,
            !.remoteIds = {}, !.got = <<>>, !.calls = <<>>, !.tasks0 = <<>>,
            !.remote0 = <<>>]

\* Mutant: no try/catch around syncConnection: its failure ends the run.
AfterSyncNoCatch(r) ==
  IF r.pc = "threw"
    THEN [DropLocals(r) EXCEPT !.pc = "end", !.rejected = TRUE,
                              !.failed = @ \cup {r.conn[1].id}]
    ELSE [DropLocals(r) EXCEPT !.pc = "loop"]

\* try { await syncConnection(conn) } catch: the loop goes on either way.
AfterSync(r) ==
  [DropLocals(r) EXCEPT !.pc = "loop",
     !.failed = IF r.pc = "threw" THEN @ \cup {r.conn[1].id} ELSE @]

\* syncAllConnections() is called (at load, and by the timer).
StartSyncAll(p, alone) ==
  /\ alone => Quiet
  /\ sync[p].pc = "idle"
  /\ ops < Budget(alone)
  /\ ops' = ops + 1
  /\ sync' = [sync EXCEPT ![p] =
       [IdleSync EXCEPT !.pc = "loop", !.kind = "all", !.list = GetAll(connections)]]
  /\ UNCHANGED <<tasks, nextId, connections, remote, clock, push, settled, fails, del, hist>>

\* The loop head: the next connection that passes the filter is synced; the
\* run ends when none is left.
SyncAllNext(p) ==
  /\ sync[p].pc = "loop"
  /\ LET r == sync[p]
         k == NextIndex(r.list, r.ci + 1, LAMBDA c : Syncable(c))
     IN  IF k = 0
           THEN /\ sync' = [sync EXCEPT ![p] = [r EXCEPT !.pc = "end", !.ci = Len(r.list)]]
                /\ settled' = settled
           ELSE /\ sync' = [sync EXCEPT ![p] =
                     EnterSync([r EXCEPT !.ci = k, !.invoked = Append(@, r.list[k].id)],
                               r.list[k])]
                /\ settled' = SettledAtEnter(p, r.list[k].id)
  /\ UNCHANGED <<tasks, nextId, connections, remote, clock, push, ops, fails, del, hist>>

\* The sync button of a connection card: syncConnection(conn).
StartManualSync(p, c, alone) ==
  /\ alone => Quiet
  /\ sync[p].pc = "idle"
  /\ ops < Budget(alone)
  /\ c \in DOMAIN connections
  /\ ops' = ops + 1
  /\ sync' = [sync EXCEPT ![p] =
       EnterSync([IdleSync EXCEPT !.kind = "manual", !.invoked = <<c>>], connections[c])]
  /\ settled' = SettledAtEnter(p, c)
  /\ UNCHANGED <<tasks, nextId, connections, remote, clock, push, fails, del, hist>>

\* Mutant: syncConnection is not awaited: the caller goes on while the cycle
\* is still at one of its awaits.
SyncReturnEarly(p) ==
  /\ sync[p].conn # <<>>
  /\ sync' = [sync EXCEPT ![p] =
       IF sync[p].kind = "all" THEN AfterSync(sync[p])
       ELSE [AfterSync(sync[p]) EXCEPT !.pc = "end"]]
  /\ UNCHANGED <<tasks, nextId, connections, remote, clock, push, ops, settled, fails, del, hist>>

\* syncConnection has returned or thrown: the caller's catch and what follows.
SyncReturn(p) ==
  /\ sync[p].pc \in {"done", "threw"}
  /\ sync' = [sync EXCEPT ![p] =
       IF sync[p].kind = "all" THEN AfterSync(sync[p])
       ELSE [AfterSync(sync[p]) EXCEPT !.pc = "end"]]
  /\ UNCHANGED <<tasks, nextId, connections, remote, clock, push, ops, settled, fails, del, hist>>

\* The run is over: its promise is settled and the callbacks have run.
SyncEnd(p) ==
  /\ sync[p].pc = "end"
  /\ sync' = [sync EXCEPT ![p] = IdleSync]
  /\ UNCHANGED <<tasks, nextId, connections, remote, clock, push, ops, settled, fails, del, hist>>

\* ----------------------------------------------------- pushTaskToNotion
\* An eager push that is not in flight.
IdlePush == [pc |-> "idle", task |-> <<>>, updates |-> <<>>, failed |-> FALSE]

\* The second request of pushTaskToNotion is due.
TextDue(task, updates) == Has(updates, "title") /\ updates.title # task.title

\* Mutant: no try/catch in pushTaskToNotion: the call rejects.
Uncaught(r) == [r EXCEPT !.pc = "threw", !.failed = TRUE]

\* catch (err) { console.error(...) }: the call returns.
Caught(r) == [r EXCEPT !.pc = "returned", !.failed = TRUE]

\* Mutant: the connection of the task is never found.
FindConnNone(task) == <<>>

\* connections.find(c => c.id === task.connection_id && c.enabled)
FindConn(task) ==
  LET all == GetAll(connections)
      k == NextIndex(all, 1, LAMBDA c : c.id = task.connection_id /\ c.enabled # 0)
  IN  IF k = 0 THEN <<>> ELSE <<all[k]>>

\* The call, up to the request it issues first (or its early return).
PushCall(q) ==
  /\ push[q].pc = "call"
  /\ LET r == push[q]
         task == r.task[1]
     IN  push' = [push EXCEPT ![q].pc =
           IF task.source # "notion" \/ task.source_id = Null THEN "returned"
           ELSE IF FindConn(task) = <<>> THEN "returned"
           ELSE IF Has(r.updates, "completed") THEN "checked"
           ELSE IF TextDue(task, r.updates) THEN "text"
           ELSE "returned"]
  /\ settled' = <<>>
  /\ UNCHANGED <<tasks, nextId, connections, remote, clock, sync, ops, fails, del, hist>>

\* await notionUpdateTodoChecked(token, task.source_id, !!updates.completed)
PushChecked(q, ok) ==
  /\ push[q].pc = "checked"
  /\ Network(ok)
  /\ LET r == push[q]
         task == r.task[1]
         good == ok /\ CanPatch(task.source_id)
     IN  /\ remote' = IF good THEN notionUpdateTodoChecked(task.source_id, r.updates.completed)
                      ELSE remote
         /\ push' = [push EXCEPT ![q] =
              IF ~good THEN Caught(r)
              ELSE IF TextDue(task, r.updates) THEN [r EXCEPT !.pc = "text"]
              ELSE [r EXCEPT !.pc = "returned"]]
  /\ settled' = <<>>
  /\ UNCHANGED <<tasks, nextId, connections, clock, sync, ops, del, hist>>

\* await notionUpdateTodoText(token, task.source_id, updates.title)
PushText(q, ok) ==
  /\ push[q].pc = "text"
  /\ Network(ok)
  /\ LET r == push[q]
         task == r.task[1]
         good == ok /\ CanPatch(task.source_id)
     IN  /\ remote' = IF good THEN notionUpdateTodoText(task.source_id, r.updates.title)
                      ELSE remote
         /\ push' = [push EXCEPT ![q] =
              IF ~good THEN Caught(r) ELSE [r EXCEPT !.pc = "returned"]]
  /\ settled' = <<>>
  /\ UNCHANGED <<tasks, nextId, connections, clock, sync, ops, del, hist>>

\* The promise of the call is settled; nobody awaits it.
PushEnd(q) ==
  /\ push[q].pc \in {"returned", "threw"}
  /\ push' = [push EXCEPT ![q] = IdlePush]
  /\ UNCHANGED <<tasks, nextId, connections, remote, clock, sync, ops, settled, fails, del, hist>>

\* ------------------------------------------------------------ user actions
\* The add form: dbCreateTask({title}).
UserAddTask(title, alone) ==
  /\ alone => Quiet
  /\ ops < Budget(alone)
  /\ ops' = ops + 1
  /\ tasks' = dbCreateTask([title |-> title])
  /\ nextId' = nextId + 1
  /\ settled' = <<>>
  /\ UNCHANGED <<connections, remote, clock, sync, push, fails, del, hist>>

\* toggleComplete(task) on a listed task: dbUpdateTask, then the eager push
\* is called and not awaited.  The task object is the one the list was
\* rendered with; the list has been reloaded (loadTasks) since the store last
\* changed, so it is the stored record.
toggleComplete(id, q, alone) ==
  /\ alone => Quiet
  /\ ops < Budget(alone)
  /\ id \in DOMAIN tasks
  /\ push[q].pc = "idle"
  /\ ops' = ops + 1
  /\ LET task == tasks[id]
         newVal == (task.completed = 0)
     IN  /\ tasks' = Put(ApplyFields(tasks[id], [completed |-> newVal]))
         /\ push' = [push EXCEPT ![q] =
              [IdlePush EXCEPT !.pc = "call", !.task = <<task>>,
                               !.updates = [completed |-> newVal]]]
  /\ settled' = <<>>
  /\ UNCHANGED <<nextId, connections, remote, clock, sync, fails, del, hist>>

\* A second click on the checkbox of the item before the list is rendered
\* again (the reload of line 571 comes 350 ms after the first click): the
\* listener of line 495 calls toggleComplete with the task object the item
\* was rendered with, the object that the finished call q was given.  The
\* first toggleComplete and its eager push have run to completion.
toggleAgain(q, alone) ==
  /\ alone => (del.pc = "idle" /\ \A p \in Procs : sync[p].pc = "idle")
  /\ ops < Budget(alone)
  /\ push[q].pc = "returned"
  /\ Has(push[q].updates, "completed")
  /\ ops' = ops + 1
  /\ LET task == push[q].task[1]
         newVal == (task.completed = 0)
     IN  /\ tasks' = IF task.id \in DOMAIN tasks
                       THEN Put(ApplyFields(tasks[task.id], [completed |-> newVal]))
                       ELSE tasks
         /\ push' = [push EXCEPT ![q] =
              [IdlePush EXCEPT !.pc = "call", !.task = <<task>>,
                               !.updates = [completed |-> newVal]]]
  /\ settled' = <<>>
  /\ UNCHANGED <<nextId, connections, remote, clock, sync, fails, del, hist>>

\* The edit form, submitted with a new title: dbGetTask, dbUpdateTask, then
\* the eager push is called with the record read before the update.
\* The description of a Notion task is not editable and is not passed.
EditBody(task, title) ==
  IF task.source = "notion"
    THEN [title |-> title, due_date |-> task.due_date]
    ELSE [title |-> title, description |-> task.description, due_date |-> task.due_date]

UserEditTitle(id, title, q, alone) ==
  /\ alone => Quiet
  /\ ops < Budget(alone)
  /\ id \in DOMAIN tasks
  /\ push[q].pc = "idle"
  /\ ops' = ops + 1
  /\ LET existing == tasks[id]
         body == EditBody(existing, title)
     IN  /\ tasks' = Put(ApplyFields(existing, body))
         /\ push' = [push EXCEPT ![q] =
              [IdlePush EXCEPT !.pc = "call", !.task = <<existing>>, !.updates = body]]
  /\ settled' = <<>>
  /\ UNCHANGED <<nextId, connections, remote, clock, sync, fails, del, hist>>

\* ------------------------------------------------------------ user deletes
\* Nothing has been deleted yet.
NoHist == [removed |-> {}, dropped |-> {}]

\* What is kept of a task the user deleted (history).
Removed(t) == [id |-> t.id, conn |-> t.connection_id, sid |-> t.source_id]

\* doDelete(id) on a listed task: dbDeleteTask.  While a sync run is in
\* flight the list may still show a task that the store no longer holds.
doDelete(id, alone) ==
  /\ alone => Quiet
  /\ ops < Budget(alone)
  /\ id \in 1..(nextId - 1)
  /\ alone => id \in DOMAIN tasks
  /\ ops' = ops + 1
  /\ tasks' = dbDeleteTask(id)
  /\ hist' = IF id \in DOMAIN tasks
               THEN [hist EXCEPT !.removed = @ \cup {Removed(tasks[id])}]
               ELSE hist
  /\ settled' = <<>>
  /\ UNCHANGED <<nextId, connections, remote, clock, sync, push, fails, del>>

\* The edit form, submitted for a task that a sync run has deleted since the
\* form was opened: dbGetTask finds nothing, dbUpdateTask returns null, and
\* no push is called.
UserEditGone(id, alone) ==
  /\ ~alone
  /\ ops < Budget(alone)
  /\ id \in 1..(nextId - 1)
  /\ id \notin DOMAIN tasks
  /\ ops' = ops + 1
  /\ settled' = <<>>
  /\ UNCHANGED <<tasks, nextId, connections, remote, clock, sync, push, fails, del, hist>>

\* The delete handler of a connection card when it is not running.
IdleDel == [pc |-> "idle", conn |-> NoId, list |-> <<>>, i |-> 0]

\* The store after dbDeleteConnection(id).
dbDeleteConnection(id) == [i \in (DOMAIN connections) \ {id} |-> connections[i]]

\* The loop of the handler from index `from` on, then dbDeleteConnection.
ToConnDelete(r, from) ==
  LET k == NextIndex(r.list, from, LAMBDA t : t.connection_id = r.conn)
  IN  IF k # 0 THEN [r EXCEPT !.pc = "delete", !.i = k]
      ELSE [r EXCEPT !.pc = "conn", !.i = 0]

\* The delete button of a connection card, confirmed: the Notion tasks are read.
ConnDeleteClick(c, alone) ==
  /\ alone => Quiet
  /\ del.pc = "idle"
  /\ ops < Budget(alone)
  /\ c \in DOMAIN connections
  /\ connections[c].type = "notion"
  /\ ops' = ops + 1
  /\ del' = ToConnDelete([IdleDel EXCEPT !.conn = c,
                                         !.list = dbGetAllTasks("notion", "any")], 1)
  /\ settled' = <<>>
  /\ UNCHANGED <<tasks, nextId, connections, remote, clock, sync, push, fails, hist>>

\* The loop of the handler: dbDeleteTask of one task of the connection.
ConnDeleteTask ==
  /\ del.pc = "delete"
  /\ tasks' = dbDeleteTask(del.list[del.i].id)
  /\ del' = ToConnDelete(del, del.i + 1)
  /\ settled' = <<>>
  /\ UNCHANGED <<nextId, connections, remote, clock, sync, push, ops, fails, hist>>

\* The runs that are about to stamp the connection.
Stamping(c) ==
  {p \in Procs : sync[p].pc = "stamp" /\ sync[p].conn[1].id = c /\ c \in DOMAIN connections}

\* dbDeleteConnection(conn.id): the handler has completed.  The delete may
\* fall between the get() and the put() of a dbUpdateConnection in flight.
ConnDeleteConn ==
  /\ del.pc = "conn"
  /\ connections' = dbDeleteConnection(del.conn)
  /\ \E late \in SUBSET Stamping(del.conn) :
       sync' = [p \in Procs |->
                  IF p \in late THEN [sync[p] EXCEPT !.got = <<connections[del.conn]>>]
                  ELSE sync[p]]
  /\ hist' = [hist EXCEPT !.dropped = @ \cup {del.conn}]
  /\ del' = IdleDel
  /\ settled' = <<>>
  /\ UNCHANGED <<tasks, nextId, remote, clock, push, ops, fails>>

\* ------------------------------------------------------------- environment
\* A block that is not there.
NoBlock == [present |-> FALSE, title |-> "a", completed |-> FALSE]

\* Somebody checks or unchecks the to-do in Notion.
RemoteToggle(id, alone) ==
  /\ alone => Quiet
  /\ ops < Budget(alone)
  /\ remote[id].present
  /\ ops' = ops + 1
  /\ remote' = [remote EXCEPT ![id].completed = ~@]
  /\ settled' = <<>>
  /\ UNCHANGED <<tasks, nextId, connections, clock, sync, push, fails, del, hist>>

\* Somebody rewrites the to-do in Notion.
RemoteRetitle(id, title, alone) ==
  /\ alone => Quiet
  /\ ops < Budget(alone)
  /\ remote[id].present
  /\ remote[id].title # title
  /\ ops' = ops + 1
  /\ remote' = [remote EXCEPT ![id].title = title]
  /\ settled' = <<>>
  /\ UNCHANGED <<tasks, nextId, connections, clock, sync, push, fails, del, hist>>

\* Somebody deletes the to-do in Notion.
RemoteRemove(id, alone) ==
  /\ alone => Quiet
  /\ ops < Budget(alone)
  /\ remote[id].present
  /\ ops' = ops + 1
  /\ remote' = [remote EXCEPT ![id] = NoBlock]
  /\ settled' = <<>>
  /\ UNCHANGED <<tasks, nextId, connections, clock, sync, push, fails, del, hist>>

\* Somebody adds (or restores) the to-do in Notion.
RemoteAdd(id, alone) ==
  /\ alone => Quiet
  /\ ops < Budget(alone)
  /\ ~remote[id].present
  /\ ops' = ops + 1
  /\ remote' = [remote EXCEPT ![id] = [present |-> TRUE, title |-> "a", completed |-> FALSE]]
  /\ settled' = <<>>
  /\ UNCHANGED <<tasks, nextId, connections, clock, sync, push, fails, del, hist>>

\* A second passes.
Tick(alone) ==
  /\ alone => Quiet
  /\ ops < Budget(alone)
  /\ ops' = ops + 1
  /\ clock' = clock + 1
  /\ UNCHANGED <<tasks, nextId, connections, remote, sync, push, settled, fails, del, hist>>

\* ----------------------------------------------------------- specification
\* The connection dbCreateConnection stores for a tested database.
NewConnection(id, db) ==
  [ id |-> id, type |-> "notion", config |-> [database_id |-> db],
    enabled |-> 1, last_synced_at |-> NoTime, created_at |-> 0 ]

\* The app is loaded: no task yet, two connections (to the same database or
\* to two databases), and the to-dos that Notion holds.
Init ==
  /\ tasks = <<>>
  /\ nextId = 1
  /\ \E db \in {"D1", "D2"} :
       connections = [c \in Conns |-> NewConnection(c, IF c = 1 THEN "D1" ELSE db)]
  /\ remote = [id \in RemoteIds |-> [present |-> TRUE, title |-> "a", completed |-> FALSE]]
  /\ clock = 0
  /\ sync = [p \in Procs |-> IdleSync]
  /\ push = [q \in Pushers |-> IdlePush]
  /\ ops = 0
  /\ fails = 0
  /\ settled = <<>>
  /\ del = IdleDel
  /\ hist = NoHist

\* The steps of sync run p.
SyncStep(p) ==
  \/ \E ok \in BOOLEAN : SyncPush(p, ok)
  \/ \E ok \in BOOLEAN : SyncFetch(p, ok)
  \/ SyncPull(p)
  \/ SyncPut(p)
  \/ SyncDelete(p)
  \/ SyncStamp(p)
  \/ SyncAllNext(p)
  \/ SyncReturn(p)
  \/ SyncEnd(p)

\* The steps of eager push q.
PushStep(q) ==
  \/ PushCall(q)
  \/ \E ok \in BOOLEAN : PushChecked(q, ok)
  \/ \E ok \in BOOLEAN : PushText(q, ok)
  \/ PushEnd(q)

\* What the user and the Notion side do.
Event(alone) ==
  \/ \E t \in Titles : UserAddTask(t, alone)
  \/ \E id \in DOMAIN tasks, q \in Pushers : toggleComplete(id, q, alone)
  \/ \E id \in DOMAIN tasks, t \in Titles, q \in Pushers : UserEditTitle(id, t, q, alone)
  \/ \E id \in RemoteIds : RemoteToggle(id, alone)
  \/ \E id \in RemoteIds, t \in Titles : RemoteRetitle(id, t, alone)
  \/ \E id \in RemoteIds : RemoteRemove(id, alone)
  \/ \E id \in RemoteIds : RemoteAdd(id, alone)
  \/ Tick(alone)

\* The steps of the delete handler of a connection card.
DelStep ==
  \/ ConnDeleteTask
  \/ ConnDeleteConn

\* What the user deletes.
Delete(alone) ==
  \/ \E id \in 1..(nextId - 1) : doDelete(id, alone)
  \/ \E c \in Conns : ConnDeleteClick(c, alone)

\* A run that starts takes the first slot that is free.
FreeSlot == IF sync["p1"].pc = "idle" THEN "p1" ELSE "p2"

\* The app has been in use: connection 1 has been synced when Notion held
\* the to-do x alone, and the to-do y has been added in Notion since.
InitRace ==
  /\ tasks = (1 :> [ id |-> 1, title |-> "a", description |-> PageTitle, completed |-> 0,
                     due_date |-> Null, source |-> "notion", source_id |-> "x",
                     source_url |-> PageUrl \o "#" \o "x", connection_id |-> 1,
                     created_at |-> 0, updated_at |-> 0 ])
  /\ nextId = 2
  /\ \E db \in {"D1", "D2"} :
       connections = [c \in Conns |->
         [NewConnection(c, IF c = 1 THEN "D1" ELSE db) EXCEPT !.last_synced_at = 0]]
  /\ remote = [id \in RemoteIds |-> [present |-> TRUE, title |-> "a", completed |-> FALSE]]
  /\ clock = 1
  /\ sync = [p \in Procs |-> IdleSync]
  /\ push = [q \in Pushers |-> IdlePush]
  /\ ops = 0
  /\ fails = 0
  /\ settled = <<>>
  /\ del = IdleDel
  /\ hist = NoHist

\* What the user does, and what Notion loses, while handlers may be in flight.
RaceEvent ==
  \/ \E t \in Titles : UserAddTask(t, FALSE)
  \/ \E id \in DOMAIN tasks, q \in Pushers : toggleComplete(id, q, FALSE)
  \/ \E id \in DOMAIN tasks, t \in Titles, q \in Pushers : UserEditTitle(id, t, q, FALSE)
  \/ \E id \in 1..(nextId - 1) : UserEditGone(id, FALSE)
  \/ Delete(FALSE)
  \/ \E id \in RemoteIds : RemoteRemove(id, FALSE)

\* The event loop: sync runs, eager pushes, the delete handler and the user's
\* actions interleave at every await.
Next ==
  \/ StartSyncAll(FreeSlot, FALSE)
  \/ \E c \in Conns : StartManualSync(FreeSlot, c, FALSE)
  \/ \E p \in Procs : SyncStep(p)
  \/ \E q \in Pushers : PushStep(q)
  \/ DelStep
  \/ RaceEvent

Spec == InitRace /\ [][Next]_vars

\* One thing at a time: a run, a push or an event begins only when nothing
\* is in flight.
NextSeq ==
  \/ StartSyncAll("p1", TRUE)
  \/ \E c \in Conns : StartManualSync("p1", c, TRUE)
  \/ SyncStep("p1")
  \/ \E q \in Pushers : PushStep(q)
  \/ Event(TRUE)

SpecSeq == Init /\ [][NextSeq]_vars

\* What the user does, and what Notion loses, one thing at a time.
UserEvent ==
  \/ \E t \in Titles : UserAddTask(t, TRUE)
  \/ \E id \in DOMAIN tasks, q \in Pushers : toggleComplete(id, q, TRUE)
  \/ \E id \in DOMAIN tasks, t \in Titles, q \in Pushers : UserEditTitle(id, t, q, TRUE)
  \/ Delete(TRUE)
  \/ \E id \in RemoteIds : RemoteRemove(id, TRUE)

\* One thing at a time, the deletes of the user among them.
NextUser ==
  \/ StartSyncAll("p1", TRUE)
  \/ \E c \in Conns : StartManualSync("p1", c, TRUE)
  \/ SyncStep("p1")
  \/ \E q \in Pushers : PushStep(q)
  \/ DelStep
  \/ UserEvent

SpecUser == Init /\ [][NextUser]_vars

\* The task list in use, with no sync run: the user adds, toggles, edits and
\* deletes tasks, one thing at a time, while time passes.
NextList ==
  \/ \E t \in Titles : UserAddTask(t, TRUE)
  \/ \E id \in DOMAIN tasks, q \in Pushers : toggleComplete(id, q, TRUE)
  \/ \E id \in DOMAIN tasks, t \in Titles, q \in Pushers : UserEditTitle(id, t, q, TRUE)
  \/ \E id \in DOMAIN tasks : doDelete(id, TRUE)
  \/ \E q \in Pushers : PushStep(q)
  \/ Tick(TRUE)

SpecList == InitRace /\ [][NextList]_vars

\* The user edits tasks and deletes connections while one run of
\* syncAllConnections and the eager pushes are at their awaits.
NextEdit ==
  \/ StartSyncAll("p1", FALSE)
  \/ SyncStep("p1")
  \/ \E q \in Pushers : PushStep(q)
  \/ DelStep
  \/ \E id \in DOMAIN tasks, q \in Pushers : toggleComplete(id, q, FALSE)
  \/ \E id \in DOMAIN tasks, t \in Titles, q \in Pushers : UserEditTitle(id, t, q, FALSE)
  \/ \E c \in Conns : ConnDeleteClick(c, FALSE)
  \/ \E id \in RemoteIds : RemoteRemove(id, FALSE)

SpecEdit == InitRace /\ [][NextEdit]_vars

\* Sync button presses that overlap, and then, one thing at a time: toggles
\* of the user with their eager pushes, to-dos that Notion loses, and sync
\* button presses.
NextSettle ==
  \/ \E c \in Conns : StartManualSync(FreeSlot, c, FALSE)
  \/ \E c \in Conns : StartManualSync("p1", c, TRUE)
  \/ \E p \in Procs, ok \in BOOLEAN : SyncPush(p, ok)
  \/ \E p \in Procs, ok \in BOOLEAN : SyncFetch(p, ok)
  \/ \E p \in Procs : SyncPull(p) \/ SyncPut(p) \/ SyncDelete(p) \/ SyncStamp(p)
  \/ \E p \in Procs : SyncReturn(p) \/ SyncEnd(p)
  \/ \E id \in DOMAIN tasks, q \in Pushers : toggleComplete(id, q, TRUE)
  \/ \E q \in Pushers : PushCall(q) \/ PushEnd(q)
  \/ \E q \in Pushers, ok \in BOOLEAN : PushChecked(q, ok)
  \/ \E id \in RemoteIds : RemoteRemove(id, TRUE)

SpecSettle == InitRace /\ [][NextSettle]_vars

\* The user adds tasks and clicks checkboxes, also twice in a row on one
\* item, while time passes; no sync run.
NextToggle ==
  \/ \E t \in Titles : UserAddTask(t, TRUE)
  \/ \E id \in DOMAIN tasks, q \in Pushers : toggleComplete(id, q, TRUE)
  \/ \E q \in Pushers : toggleAgain(q, TRUE)
  \/ \E q \in Pushers : PushCall(q) \/ PushEnd(q)
  \/ \E q \in Pushers, ok \in BOOLEAN : PushChecked(q, ok)
  \/ Tick(TRUE)

SpecToggle == InitRace /\ [][NextToggle]_vars

\* A sync run, started by the timer or by the sync button, while Notion
\* loses to-dos.
NextLive ==
  \/ StartSyncAll("p1", FALSE)
  \/ \E c \in Conns : StartManualSync("p1", c, FALSE)
  \/ SyncStep("p1")
  \/ \E id \in RemoteIds : RemoteRemove(id, FALSE)

\* Every call that a sync run awaits returns in the end: the run takes its
\* next step, whatever happens meanwhile.
SpecLive == InitRace /\ [][NextLive]_vars /\ WF_vars(SyncStep("p1"))

\* ------------------------------------------------------------------ claims
\* The tasks of the list read at the start of the cycle that are the
\* connection's own, in list order.
OwnedTasks(r) == SelectSeq(r.localTasks, LAMBDA t : OwnedBy(t, r.conn[1]))

\* The remote ids the fetch of the cycle listed.
FetchedIds(r) == {r.remoteTodos[k].source_id : k \in 1..Len(r.remoteTodos)}

\* The cycle pushed the block and the request went through / failed.
PushOk(r, id) ==
  \E k \in 1..Len(r.calls) : r.calls[k].op = "push" /\ r.calls[k].id = id /\ r.calls[k].ok

PushFailed(r, id) ==
  \E k \in 1..Len(r.calls) : r.calls[k].op = "push" /\ r.calls[k].id = id /\ ~r.calls[k].ok

\* The case of C1: an own task that is not completed, its to-do checked on
\* the remote side when the cycle began and listed by the fetch.
ConvergenceCase(r, t) ==
  /\ t.completed = 0
  /\ r.remote0[t.source_id].completed
  /\ t.source_id \in FetchedIds(r)

\* C1 as stated: when a cycle has completed, a local task that was not
\* completed and whose remote to-do was checked is completed (remote wins).
C1_RemoteWins ==
  \A p \in Procs : sync[p].pc = "done" =>
    \A k \in 1..Len(OwnedTasks(sync[p])) :
      LET t == OwnedTasks(sync[p])[k]
      IN  ConvergenceCase(sync[p], t) =>
            t.id \in DOMAIN tasks /\ tasks[t.id].completed = 1

\* C1, amended: in that case the task is completed after the cycle only if
\* the push of the task failed; if the push went through, the pushed local
\* value has won: the task and the remote to-do are both not completed.
C1_PushedValueWins ==
  \A p \in Procs : sync[p].pc = "done" =>
    \A k \in 1..Len(OwnedTasks(sync[p])) :
      LET t == OwnedTasks(sync[p])[k]
      IN  ConvergenceCase(sync[p], t) =>
            /\ t.id \in DOMAIN tasks
            /\ IF PushOk(sync[p], t.source_id)
                 THEN tasks[t.id].completed = 0 /\ ~remote[t.source_id].completed
                 ELSE tasks[t.id].completed = 1

\* Witness of C1: a cycle has completed on the case, its push went through.
C1_Witness ==
  \E p \in Procs :
    /\ sync[p].pc = "done"
    /\ \E k \in 1..Len(OwnedTasks(sync[p])) :
         LET t == OwnedTasks(sync[p])[k]
         IN  /\ ConvergenceCase(sync[p], t)
             /\ PushOk(sync[p], t.source_id)
             /\ tasks[t.id].completed = 0

\* What C2 compares of a store: the ids, and four fields of every task.
View(store) ==
  [id \in DOMAIN store |->
     <<store[id].title, store[id].description, store[id].completed, store[id].source_url>>]

C3_OrphansDeleted ==
  \A p \in Procs : sync[p].pc = "done" =>
    \A k \in 1..Len(OwnedTasks(sync[p])) :
      LET t == OwnedTasks(sync[p])[k]
      IN  (t.id \in DOMAIN tasks) <=> (t.source_id \in FetchedIds(sync[p]))

\* Witness of C3: a cycle has completed, one own task is gone, one is kept.
C3_Witness ==
  \E p \in Procs :
    /\ sync[p].pc = "done"
    /\ \E k1, k2 \in 1..Len(OwnedTasks(sync[p])) :
         /\ OwnedTasks(sync[p])[k1].id \notin DOMAIN tasks
         /\ OwnedTasks(sync[p])[k2].id \in DOMAIN tasks

\* The case of C4: the store was empty when the cycle began, one to-do listed.
CreationCase(r) == r.pc = "done" /\ DOMAIN r.tasks0 = {} /\ Len(r.remoteTodos) = 1

\* C4: a cycle that began on an empty store and fetched one to-do leaves
\* exactly one task: a Notion task of the connection with the to-do's id,
\* title, completed and source_url.
C4_Creation ==
  \A p \in Procs : CreationCase(sync[p]) =>
    LET todo == sync[p].remoteTodos[1]
    IN  /\ Cardinality(DOMAIN tasks) = 1
        /\ \A id \in DOMAIN tasks :
             /\ tasks[id].source = "notion"
             /\ tasks[id].connection_id = sync[p].conn[1].id
             /\ tasks[id].source_id = todo.source_id
             /\ tasks[id].title = todo.title
             /\ tasks[id].completed = (IF todo.completed THEN 1 ELSE 0)
             /\ tasks[id].source_url = todo.source_url

\* Witness of C4: such a cycle has completed, on a to-do that is checked.
C4_Witness ==
  \E p \in Procs : CreationCase(sync[p]) /\ sync[p].remoteTodos[1].completed

\* C5: when a cycle issues its fetch, it has issued one push for each own
\* task of the list, in list order, with the completed value the store held
\* when the cycle began, and it issues no push after the fetch.
C5_PushBeforePull ==
  \A p \in Procs :
    \A k \in 1..Len(sync[p].calls) :
      sync[p].calls[k].op = "fetch" =>
        LET r == sync[p]
            own == OwnedTasks(r)
        IN  /\ k = Len(own) + 1
            /\ \A j \in 1..Len(own) :
                 /\ r.calls[j].op = "push"
                 /\ r.calls[j].id = own[j].source_id
                 /\ r.calls[j].checked = (r.tasks0[own[j].id].completed # 0)
            /\ \A j \in (k + 1)..Len(r.calls) : r.calls[j].op # "push"

\* Witness of C5: a fetch has been issued after the push of a completed task.
C5_Witness ==
  \E p \in Procs :
    \E k \in 2..Len(sync[p].calls) :
      /\ sync[p].calls[k].op = "fetch"
      /\ \E j \in 1..(k - 1) : sync[p].calls[j].checked

\* The connections of the list that pass the filter, in list order.
SyncableIds(list) ==
  LET s == SelectSeq(list, LAMBDA c : Syncable(c))
  IN  [k \in 1..Len(s) |-> s[k].id]

\* C6: when a run of syncAllConnections ends, it has not rejected, and it
\* has called syncConnection for every connection that passes the filter,
\* in order, whichever of them failed.
C6_Isolation ==
  \A p \in Procs :
    (sync[p].kind = "all" /\ sync[p].pc = "end") =>
       ~sync[p].rejected /\ sync[p].invoked = SyncableIds(sync[p].list)

\* Witness of C6: a run has ended in which the cycle of connection 1 failed
\* and connection 2 was synced after it.
C6_Witness ==
  \E p \in Procs :
    /\ sync[p].kind = "all" /\ sync[p].pc = "end"
    /\ 1 \in sync[p].failed
    /\ sync[p].invoked = <<1, 2>>

\* The local tasks of a store.
LocalIds(store) == {id \in DOMAIN store : store[id].source = "local"}

\* C7: a cycle does not read a local task into its list, issues no request
\* for one, and leaves every local task as the store held it at its start.
C7_LocalUntouched ==
  \A p \in Procs : sync[p].conn # <<>> =>
    LET r == sync[p]
    IN  /\ \A k \in 1..Len(r.localTasks) : r.localTasks[k].source # "local"
        /\ \A k \in 1..Len(r.calls) : r.calls[k].op = "push" => r.calls[k].id # Null
        /\ \A id \in LocalIds(r.tasks0) : id \in DOMAIN tasks /\ tasks[id] = r.tasks0[id]

\* Witness of C7: a cycle has completed that changed the store, which held
\* a local task when it began.
C7_Witness ==
  \E p \in Procs :
    /\ sync[p].pc = "done"
    /\ LocalIds(sync[p].tasks0) # {}
    /\ View(tasks) # View(sync[p].tasks0)

\* C8 as stated: when a cycle has completed, an own task whose push failed
\* (and whose to-do is still listed) holds the completed value it held when
\* the cycle began.
C8_LocalValueKept ==
  \A p \in Procs : sync[p].pc = "done" =>
    \A k \in 1..Len(OwnedTasks(sync[p])) :
      LET t == OwnedTasks(sync[p])[k]
      IN  (PushFailed(sync[p], t.source_id) /\ t.source_id \in FetchedIds(sync[p])) =>
            t.id \in DOMAIN tasks /\ tasks[t.id].completed = t.completed

\* The number of pushes among the requests of the cycle.
PushCount(r) == Cardinality({k \in 1..Len(r.calls) : r.calls[k].op = "push"})

\* C9: a cycle ends by throwing only on a failed fetch; once past its push
\* loop it has pushed every own task of its list, whichever pushes failed;
\* and when it has completed, every listed to-do has a task, no own task of
\* the list with an unlisted id is left, and the connection is stamped.
C9_PushFailureNotFatal ==
  \A p \in Procs :
    LET r == sync[p]
    IN  /\ r.pc = "threw" =>
             r.calls[Len(r.calls)].op = "fetch" /\ ~r.calls[Len(r.calls)].ok
        /\ r.pc \in {"pull", "put", "delete", "stamp", "done"} =>
             PushCount(r) = Len(OwnedTasks(r))
        /\ r.pc = "done" =>
             /\ \A x \in FetchedIds(r) : \E id \in DOMAIN tasks : tasks[id].source_id = x
             /\ \A k \in 1..Len(OwnedTasks(r)) :
                  OwnedTasks(r)[k].source_id \notin FetchedIds(r) =>
                    OwnedTasks(r)[k].id \notin DOMAIN tasks
             /\ connections[r.conn[1].id].last_synced_at # NoTime

\* Witness of C9: a cycle has completed whose first push failed and whose
\* second push went through.
C9_Witness ==
  \E p \in Procs :
    /\ sync[p].pc = "done"
    /\ Len(sync[p].calls) >= 3
    /\ sync[p].calls[1].op = "push" /\ ~sync[p].calls[1].ok
    /\ sync[p].calls[2].op = "push" /\ sync[p].calls[2].ok

\* C10: a call of pushTaskToNotion never rejects, and none of its steps
\* changes the task store.
C10_PushNeverThrows ==
  /\ [](\A q \in Pushers : push[q].pc # "threw")
  /\ [][(\E q \in Pushers : push[q].pc # "idle" /\ push'[q] # push[q])
          => tasks' = tasks]_vars

\* Witness of C10: a call has returned after a request of it failed.
C10_Witness ==
  \E q \in Pushers : push[q].pc = "returned" /\ push[q].failed

\* A cycle of the run is in progress.
InCycle(r) == r.conn # <<>>

\* C11 as stated: in every state, no two tasks share both connection_id and
\* source_id.
C11_NoDuplicate ==
  \A i, j \in DOMAIN tasks :
    (tasks[i].source_id # Null /\ tasks[i].source_id = tasks[j].source_id
       /\ tasks[i].connection_id = tasks[j].connection_id) => i = j

\* C13 as stated: at no time are cycles of the same connection in progress
\* in two runs of syncAllConnections.
C13_NoOverlap ==
  \A p1, p2 \in Procs :
    (p1 # p2 /\ sync[p1].kind = "all" /\ sync[p2].kind = "all"
       /\ InCycle(sync[p1]) /\ InCycle(sync[p2])) =>
      sync[p1].conn[1].id # sync[p2].conn[1].id

\* C15 as stated: once the delete handler of a connection has completed, no
\* task has the connection's id as its connection_id.
C15_Cascade ==
  \A id \in DOMAIN tasks : tasks[id].connection_id \notin hist.dropped

\* C19 as stated, for the update of a cycle: a task the user has deleted is
\* not in the store again (keys are not reused, so it would be re-created).
C19_DeletedStaysDeleted ==
  \A d \in hist.removed : d.id \notin DOMAIN tasks

\* The fetch of the cycle has failed.
FetchHasFailed(r) ==
  /\ InCycle(r)
  /\ r.calls # <<>>
  /\ r.calls[Len(r.calls)].op = "fetch"
  /\ ~r.calls[Len(r.calls)].ok

Matching(store, fSource, fCompleted) ==
  {id \in DOMAIN store :
     /\ fSource # "any" => store[id].source = fSource
     /\ fCompleted # "any" => (store[id].completed # 0) = (fCompleted = "true")}

\* The filters a caller can give.
SourceFilters == {"any", "local", "notion"}
CompletedFilters == {"any", "true", "false"}

\* C20: for every filter, dbGetAllTasks returns each stored task that matches
\* once and no other, every incomplete task before every completed one, and
\* within each group by created_at descending.
C20_ListTasks ==
  \A fs \in SourceFilters, fc \in CompletedFilters :
    LET l == dbGetAllTasks(fs, fc)
    IN  /\ Len(l) = Cardinality(Matching(tasks, fs, fc))
        /\ \A id \in Matching(tasks, fs, fc) : \E k \in 1..Len(l) : l[k] = tasks[id]
        /\ \A i, j \in 1..Len(l) : i < j =>
             /\ (l[i].completed # 0) => (l[j].completed # 0)
             /\ (l[i].completed # 0) = (l[j].completed # 0) =>
                  l[i].created_at >= l[j].created_at

\* Witness of C20: the store holds a completed task and two incomplete tasks
\* of different age, one of them local and one from Notion.
C20_Witness ==
  \E a, b, c \in DOMAIN tasks :
    /\ tasks[a].completed = 1 /\ tasks[b].completed = 0 /\ tasks[c].completed = 0
    /\ tasks[b].created_at > tasks[c].created_at
    /\ tasks[b].source # tasks[c].source

Linked(store, c, sid) ==
  {id \in DOMAIN store : store[id].connection_id = c /\ store[id].source_id = sid}

\* The case of C16: the user has deleted a task of the connection of the
\* cycle, and the store held no task of the connection for that to-do when the
\* cycle began.
DeletedBefore(r) ==
  {d \in hist.removed : /\ d.sid # Null
                        /\ d.conn = r.conn[1].id
                        /\ Linked(r.tasks0, d.conn, d.sid) = {}}

\* C16: when such a cycle has completed, the connection has a task for the
\* to-do again if Notion still listed it, and none if it did not.
C16_Reappears ==
  \A p \in Procs :
    sync[p].pc = "done" =>
      \A d \in DeletedBefore(sync[p]) :
        (d.sid \in FetchedIds(sync[p])) <=> (Linked(tasks, d.conn, d.sid) # {})

\* C17: in every task, source_id and connection_id are both present or both
\* absent, and they are present exactly when source is not local.
C17_TaskInvariant ==
  \A id \in DOMAIN tasks :
    /\ (tasks[id].source_id # Null) <=> (tasks[id].connection_id # NoId)
    /\ (tasks[id].source_id # Null) <=> (tasks[id].source # "local")

\* Witness of C17: the store holds a task the user added and a task a cycle
\* created, after the user has deleted a task and a connection.
C17_Witness ==
  /\ \E id \in DOMAIN tasks : tasks[id].source = "local"
  /\ \E id \in DOMAIN tasks : tasks[id].source_id # Null
  /\ hist.dropped # {}
  /\ hist.removed # {}

\* The case of C18: pushTaskToNotion has been called for a task with a remote
\* identifier, with a completion toggle or with a title that differs.
EagerDue(r) ==
  /\ r.pc = "call"
  /\ r.task[1].source_id # Null
  /\ (Has(r.updates, "completed") \/ TextDue(r.task[1], r.updates))

\* The connection of the task is stored and enabled.
Connected(task) ==
  /\ task.connection_id \in DOMAIN connections
  /\ connections[task.connection_id].enabled # 0

\* The step of the call that follows has issued a remote request.
Requested(q) == push'[q].pc # "call" => push'[q].pc \in {"checked", "text"}

\* C18 as stated: the call issues a request whatever the state of the
\* connection of the task.
C18_PushAlways ==
  [][\A q \in Pushers : EagerDue(push[q]) => Requested(q)]_vars

\* C18, amended: the call issues a request, whatever the sync runs are
\* doing, when the connection of the task is stored and enabled: the
\* completion request for a toggle, the text request for a title alone.
C18_PushIfConnected ==
  [][\A q \in Pushers :
       (EagerDue(push[q]) /\ Connected(push[q].task[1])) =>
          /\ Requested(q)
          /\ push'[q].pc = "checked" => Has(push[q].updates, "completed")
          /\ push'[q].pc = "text" => ~Has(push[q].updates, "completed")]_vars

\* Witness of C18: the completion request of a toggle is in flight while a
\* cycle of the connection of the task is at its fetch.
C18_Witness ==
  \E q \in Pushers, p \in Procs :
    /\ push[q].pc = "checked"
    /\ Connected(push[q].task[1])
    /\ sync[p].pc = "fetch"
    /\ sync[p].conn[1].id = push[q].task[1].connection_id

\* C22: while a cycle of connection c runs alone, every task that the store
\* held for another connection when the cycle began is in the store
\* unchanged, and every task the cycle has added is a task of c.
C22_OtherConnectionsUntouched ==
  \A p \in Procs :
    InCycle(sync[p]) =>
      LET r == sync[p]
          c == r.conn[1].id
      IN  /\ \A id \in DOMAIN r.tasks0 :
               (r.tasks0[id].source_id # Null /\ r.tasks0[id].connection_id # c) =>
                  (id \in DOMAIN tasks /\ tasks[id] = r.tasks0[id])
          /\ \A id \in (DOMAIN tasks) \ (DOMAIN r.tasks0) : tasks[id].connection_id = c

\* The fetch of the cycle has returned its list.
FetchReturned(r) ==
  \E k \in 1..Len(r.calls) : r.calls[k].op = "fetch" /\ r.calls[k].ok

\* The tasks of the cycle's connection that the fetch did not list.
Orphans(r) ==
  {id \in DOMAIN r.tasks0 : /\ OwnedBy(r.tasks0[id], r.conn[1])
                            /\ r.tasks0[id].source_id \notin FetchedIds(r)}

\* C23: in each step of a cycle that runs alone: a task is written or added
\* only after the fetch has returned and before any task is deleted; a task
\* is deleted only after the fetch has returned; and the step that stamps the
\* connection or completes the call changes no task and finds every orphan
\* deleted.
C23_PhaseOrder ==
  [][\A p \in Procs :
       (InCycle(sync[p]) /\ InCycle(sync'[p])) =>
         LET r == sync[p]
             written == {id \in DOMAIN tasks' : id \notin DOMAIN tasks \/ tasks'[id] # tasks[id]}
             deleted == (DOMAIN tasks) \ (DOMAIN tasks')
         IN  /\ written # {} =>
                  FetchReturned(r) /\ (DOMAIN r.tasks0) \ (DOMAIN tasks) = {}
             /\ deleted # {} => FetchReturned(r)
             /\ (connections' # connections \/ sync'[p].pc = "done") =>
                  /\ tasks' = tasks
                  /\ FetchReturned(r)
                  /\ Orphans(r) \cap DOMAIN tasks = {}]_vars

\* Witness of C23: a cycle has completed that changed one task and deleted
\* another.
C23_Witness ==
  \E p \in Procs :
    /\ sync[p].pc = "done"
    /\ \E id \in (DOMAIN sync[p].tasks0) \cap (DOMAIN tasks) : tasks[id] # sync[p].tasks0[id]
    /\ (DOMAIN sync[p].tasks0) \ (DOMAIN tasks) # {}

\* The to-dos of the fetched list that the pull loop matched to a local task
\* of the list it read, as indices of the fetched list.
MatchedTodos(r) ==
  {k \in 1..Len(r.remoteTodos) :
     LocalBySourceId(r.localTasks, r.remoteTodos[k].source_id) # <<>>}

RanAlone(r) == InCycle(r) /\ ops > MaxRaceOps

\* Every remote request of the cycle has succeeded.
AllCallsOk(r) == \A k \in 1..Len(r.calls) : r.calls[k].ok

\* C25: when a cycle that ran alone, with every request succeeding, has
\* completed, every task of its connection with a remote identifier has the
\* completed value of its to-do, which is the value the task had when the
\* cycle began.
C25_EventualCorrection ==
  \A p \in Procs :
    (sync[p].pc = "done" /\ RanAlone(sync[p]) /\ AllCallsOk(sync[p])) =>
      \A id \in DOMAIN tasks :
        OwnedBy(tasks[id], sync[p].conn[1]) =>
          /\ remote[tasks[id].source_id].present
          /\ (tasks[id].completed # 0) = remote[tasks[id].source_id].completed
          /\ id \in DOMAIN sync[p].tasks0 =>
               tasks[id].completed = sync[p].tasks0[id].completed

\* The keys dbUpdateTask copies, and the keys of a task it must leave alone.
AllowedKeys == {"title", "description", "completed", "due_date", "source_url"}
KeptKeys == {"id", "source", "source_id", "connection_id", "created_at"}

\* Objects a caller may pass as `fields`: what the callers of the code pass,
\* and objects that carry keys outside the allowed ones.
AnyFields ==
  { [completed |-> TRUE],
    [completed |-> FALSE],
    [title |-> "b", due_date |-> "d"],
    [title |-> "b", description |-> "c", completed |-> TRUE, source_url |-> "v"],
    [id |-> 9, source |-> "local", source_id |-> Null, connection_id |-> NoId],
    [title |-> "b", source |-> "other", source_id |-> "z", connection_id |-> 2,
     created_at |-> 7, updated_at |-> 7],
    [completed |-> TRUE, id |-> 9, created_at |-> 7] }

\* C26: for every stored task and every object passed as `fields`, the
\* record dbUpdateTask writes has the supplied values in the allowed keys
\* that are supplied (completed as 0 or 1), the time of the call in
\* updated_at, and the value of the stored task in every other key; it is
\* written under the key of the task and no other record changes.
C26_UpdateFrame ==
  \A id \in DOMAIN tasks :
    \A fields \in AnyFields :
      LET old == tasks[id]
          new == ApplyFields(old, fields)
          store == Put(new)
      IN  /\ DOMAIN new = DOMAIN old
          /\ \A k \in AllowedKeys \ {"completed"} :
               new[k] = IF Has(fields, k) THEN fields[k] ELSE old[k]
          /\ new.completed = IF Has(fields, "completed")
                               THEN (IF fields.completed THEN 1 ELSE 0)
                               ELSE old.completed
          /\ new.completed \in {0, 1}
          /\ new.updated_at = localNow
          /\ \A k \in KeptKeys : new[k] = old[k]
          /\ DOMAIN store = DOMAIN tasks
          /\ store[id] = new
          /\ \A other \in (DOMAIN tasks) \ {id} : store[other] = tasks[other]

\* Witness of C26: a Notion task that the user has retitled and completed, at
\* a later time than it was created.
C26_Witness ==
  \E id \in DOMAIN tasks :
    /\ tasks[id].source_id # Null
    /\ tasks[id].title = "b"
    /\ tasks[id].completed = 1
    /\ tasks[id].updated_at > tasks[id].created_at

\* C27: when toggleComplete is called a second time on an item before the
\* list is rendered again, the stored completed flag of the task is back at
\* the value it had before the first call, the value the item shows.
C27_DoubleToggle ==
  [][\A q \in Pushers :
       (push[q].pc = "returned" /\ push'[q].pc = "call") =>
          LET task == push[q].task[1]
          IN  task.id \in DOMAIN tasks' =>
                tasks'[task.id].completed = task.completed]_vars

\* C21: every run of syncAllConnections that has started ends, and every
\* cycle of syncConnection that has started is over in the end, completed or
\* thrown.
C21_Terminates ==
  \A p \in Procs :
    /\ (sync[p].pc # "idle") ~> (sync[p].pc = "idle")
    /\ InCycle(sync[p]) ~> (sync[p].pc \in {"done", "threw"})

\* Witness of C21: a run has ended in which the cycle of connection 1 has
\* deleted a task and the fetch of the cycle of connection 2 has failed.
C21_Witness ==
  \E p \in Procs :
    /\ sync[p].kind = "all" /\ sync[p].pc = "end"
    /\ sync[p].invoked = <<1, 2>> /\ sync[p].failed = {2}
    /\ 1 \notin DOMAIN tasks

====
